---- MODULE Spec2Model ----
(***************************************************************************)
(* A model of the Hue animation controller: app.py builds a Bridge (one    *)
(* validation GET), builds an Animation (environment + preset file), and   *)
(* calls launch(), which runs load_effect() under asyncio.run forever.     *)
(*                                                                         *)
(* Python values are modelled structurally: a JSON object is a function    *)
(* whose DOMAIN is its key set, a JSON scalar is a record [type, val], a   *)
(* string that the code splits is a sequence of one-character strings.     *)
(* An asyncio task is a record; the steps between two suspension points    *)
(* of the event loop are one action.                                       *)
(***************************************************************************)
EXTENDS Integers, Sequences, FiniteSets, TLC

(***************************************************************************)
(* Bounds of the explored inputs.                                          *)
(***************************************************************************)
\* longest value of the LIGHTS environment variable, in characters
MaxEnvLen == 3
\* largest value of MIN_DURATION / MAX_DURATION
MaxDuration == 2
\* widest non-degenerate range (max - min) of a preset in the explored files
MaxWidth == 1

(***************************************************************************)
(* Program constants.                                                      *)
(***************************************************************************)
\* bridge.py:130  0 <= hue <= 65535
MaxHue == 65535
\* bridge.py:133  0 <= brightness <= 254
MaxBri == 254
\* bridge.py:136  0 <= saturation <= 254
MaxSat == 254

\* animation.py:38
required_keys == <<"speed", "hue", "bri", "sat">>

(***************************************************************************)
(* JSON scalars as json.load returns them.                                 *)
(***************************************************************************)
JInt(n) == [type |-> "int", val |-> n]
\* Python's True / False: a bool is an instance of int, with value 1 / 0
JBool(b) == [type |-> "bool", val |-> IF b THEN 1 ELSE 0]
\* the float n.5
JFloat(n) == [type |-> "float", val |-> n]
JStr == [type |-> "str", val |-> 0]

\* isinstance(x, int), animation.py:47: bool is a subclass of int
IsInstanceInt(x) == x.type \in {"int", "bool"}

\* a range object {"min": lo, "max": hi}
Range(lo, hi) == [min |-> lo, max |-> hi]
IntRange(lo, hi) == Range(JInt(lo), JInt(hi))

(***************************************************************************)
(* The explored preset files.  A file is the sequence of its              *)
(* (name, properties) members in file order; properties maps the keys     *)
(* present to range objects, a range object maps the keys present to      *)
(* scalars.                                                                *)
(***************************************************************************)
BasePreset ==
    [speed |-> IntRange(50, 50), hue |-> IntRange(0, 0),
     bri |-> IntRange(MaxBri, MaxBri), sat |-> IntRange(MaxSat, MaxSat)]

\* p with the range of `key` replaced by r
WithRange(p, key, r) == [p EXCEPT ![key] = r]
\* p without `key`
Without(p, key) == [k \in (DOMAIN p) \ {key} |-> p[k]]

\* presets the loader accepts whose ranges are all integers with min <= max
WellFormedPresets ==
    {BasePreset}
    \cup {WithRange(BasePreset, "hue", IntRange(0, w)) : w \in 1..MaxWidth}
    \cup {WithRange(BasePreset, "hue", IntRange(MaxHue, MaxHue + w)) : w \in 1..MaxWidth}
    \cup {WithRange(BasePreset, "hue", IntRange(0 - w, 0)) : w \in 1..MaxWidth}
    \cup {WithRange(BasePreset, "bri", IntRange(MaxBri, MaxBri + w)) : w \in 1..MaxWidth}
    \cup {WithRange(BasePreset, "sat", IntRange(0 - w, 0)) : w \in 1..MaxWidth}
    \cup {WithRange(BasePreset, "speed", IntRange(50, 50 + w)) : w \in 1..MaxWidth}

\* range objects that are not {min: integer, max: integer} with min <= max
MalformedRanges ==
    {[min |-> JInt(0)], [max |-> JInt(0)], <<>>,
     Range(JFloat(0), JInt(1)), Range(JInt(0), JStr),
     Range(JBool(FALSE), JBool(TRUE)), Range(JInt(0), JBool(TRUE)),
     IntRange(1, 0)}

Keys == {required_keys[i] : i \in 1..Len(required_keys)}

MalformedPresets ==
    {WithRange(BasePreset, k, r) : k \in Keys, r \in MalformedRanges}
    \cup {Without(BasePreset, k) : k \in Keys}

Member(name, props) == [name |-> name, properties |-> props]

AnimationFiles ==
    {<<>>}
    \cup {<<Member("a", p)>> : p \in WellFormedPresets \cup MalformedPresets}
    \cup {<<Member("a", BasePreset), Member("b", p)>> :
            p \in {WithRange(BasePreset, "hue", IntRange(MaxHue, MaxHue + 1)),
                   WithRange(BasePreset, "sat", IntRange(1, 0)),
                   Without(BasePreset, "bri")}}

(***************************************************************************)
(* Animation.load_and_validate_animations, animation.py:38-53.             *)
(* The result is [ok |-> TRUE, data |-> file] or [ok |-> FALSE, error].    *)
(***************************************************************************)
\* animation.py:41-51, the four checks on one key of one preset, in order
CheckKey(properties, key) ==
    IF key \notin DOMAIN properties THEN "missing_key"
    ELSE IF ~({"min", "max"} \subseteq DOMAIN properties[key]) THEN "missing_min_max"
    ELSE IF ~IsInstanceInt(properties[key]["min"])
            \/ ~IsInstanceInt(properties[key]["max"]) THEN "not_integers"
    ELSE IF properties[key]["min"].val > properties[key]["max"].val THEN "min_gt_max"
    ELSE "ok"

\* animation.py:40, for key in required_keys: the first failing check
RECURSIVE CheckKeys(_, _)
CheckKeys(properties, i) ==
    IF i > Len(required_keys) THEN "ok"
    ELSE IF CheckKey(properties, required_keys[i]) # "ok"
         THEN CheckKey(properties, required_keys[i])
         ELSE CheckKeys(properties, i + 1)

\* animation.py:39, for animation_name, properties in data.items()
RECURSIVE CheckMembers(_, _)
CheckMembers(data, i) ==
    IF i > Len(data) THEN "ok"
    ELSE IF CheckKeys(data[i].properties, 1) # "ok"
         THEN CheckKeys(data[i].properties, 1)
         ELSE CheckMembers(data, i + 1)

load_and_validate_animations(data) ==
    IF CheckMembers(data, 1) = "ok"
    THEN [ok |-> TRUE, data |-> data]
    ELSE [ok |-> FALSE, error |-> CheckMembers(data, 1)]

(***************************************************************************)
(* random.randint(a, b), animation.py:65 and 88-90: any integer of a..b;   *)
(* the empty set stands for ValueError (a > b).                            *)
(***************************************************************************)
\* a randint that orders its bounds instead of raising
MutRandintOrdered(a, b) == IF a > b THEN b..a ELSE a..b

randint(a, b) == a..b

\* generate_random_state drawing the hue with an upper bound one too far
MutGenerateRandomState(config) ==
    {[hue |-> h, bri |-> b, sat |-> s] :
        h \in (config["hue"]["min"].val)..(config["hue"]["max"].val + 1),
        b \in (config["bri"]["min"].val)..(config["bri"]["max"].val),
        s \in (config["sat"]["min"].val)..(config["sat"]["max"].val)}

\* Animation.generate_random_state, animation.py:87-91: the states it can return
generate_random_state(config) ==
    {[hue |-> h, bri |-> b, sat |-> s] :
        h \in randint(config["hue"]["min"].val, config["hue"]["max"].val),
        b \in randint(config["bri"]["min"].val, config["bri"]["max"].val),
        s \in randint(config["sat"]["min"].val, config["sat"]["max"].val)}

(***************************************************************************)
(* str.split('|'), animation.py:18, on a string given as the sequence of   *)
(* its characters.                                                         *)
(***************************************************************************)
RECURSIVE Split(_)
Split(s) ==
    IF \A i \in 1..Len(s) : s[i] # "|" THEN <<s>>
    ELSE LET i == CHOOSE j \in 1..Len(s) :
                     s[j] = "|" /\ \A k \in 1..(j - 1) : s[k] # "|"
         IN <<SubSeq(s, 1, i - 1)>> \o Split(SubSeq(s, i + 1, Len(s)))

RECURSIVE StringsUpTo(_)
\* the strings over {"1", "|"} of at most n characters
StringsUpTo(n) ==
    IF n = 0 THEN {<<>>}
    ELSE StringsUpTo(n - 1)
         \cup {Append(s, c) : s \in {t \in StringsUpTo(n - 1) : Len(t) = n - 1},
                              c \in {"1", "|"}}

\* the explored values of LIGHTS: light ids of at most one character
LightsStrings ==
    {s \in StringsUpTo(MaxEnvLen) :
        \A i \in 1..(Len(s) - 1) : ~(s[i] = "1" /\ s[i + 1] = "1")}

(***************************************************************************)
(* Http, http_handler.py.  A URL is [scheme, path]; the outcome of the     *)
(* request itself is chosen by the network.                                *)
(***************************************************************************)
\* http_handler.py:63
validate_url(url) == url.scheme \in {"http://", "https://"}
\* http_handler.py:74: a non-empty dict
validate_payload(data) == DOMAIN data # {}

\* what can become of a request once it is sent (http_handler.py:44-54, 20-30):
\* a JSON body, aiohttp.ClientError, json.JSONDecodeError, or an exception
\* that is neither (asyncio.TimeoutError, UnicodeDecodeError)
TransportOutcomes == {"ok", "ClientError", "JSONDecodeError", "OtherError"}
\* the outcomes whose except clause appends to the transport log
HttpLogged(o) == o \in {"ClientError", "JSONDecodeError"}

(***************************************************************************)
(* Bridge, bridge.py.                                                      *)
(***************************************************************************)
\* bridge.py:117: a non-empty str
validate_light_id(light_id) == light_id # <<>>
\* bridge.py:42 and 24: every URL the bridge builds starts with http://
get_url(light_id) == [scheme |-> "http://", path |-> <<"lights", light_id, "state">>]
config_url == [scheme |-> "http://", path |-> <<"config">>]

\* validate_color_values without the lower bound of hue
MutValidateColorValues(hue, brightness, saturation) ==
    /\ hue <= MaxHue
    /\ 0 <= brightness /\ brightness <= MaxBri
    /\ 0 <= saturation /\ saturation <= MaxSat

\* bridge.py:130-138
validate_color_values(hue, brightness, saturation) ==
    /\ 0 <= hue /\ hue <= MaxHue
    /\ 0 <= brightness /\ brightness <= MaxBri
    /\ 0 <= saturation /\ saturation <= MaxSat

\* A task: op is the coroutine, args the LightState it was called with,
\* st its status, put whether it has issued its PUT, bridge_log / http_log
\* the entries it has appended to bridge_error_log.txt / http_error_log.txt.
Task(op, light_id, args, st, put, bridge_log, http_log) ==
    [op |-> op, light_id |-> light_id, args |-> args, st |-> st, put |-> put,
     bridge_log |-> bridge_log, http_log |-> http_log]

\* Http.put up to its first suspension, http_handler.py:41-46, called from a
\* bridge coroutine whose except clause logs and re-raises
PutStart(op, light_id, args, url, data) ==
    IF ~validate_url(url) \/ ~validate_payload(data)
    THEN Task(op, light_id, args, "failed", FALSE, 1, 1)
    ELSE Task(op, light_id, args, "pending", TRUE, 0, 0)

\* Bridge.turn_on_light up to its first suspension, bridge.py:51-57
turn_on_light(light_id) ==
    IF ~validate_light_id(light_id)
    THEN \* logged by validate_light_id (118) and by the except clause (56)
         Task("turn_on_light", light_id, <<>>, "failed", FALSE, 2, 0)
    ELSE PutStart("turn_on_light", light_id, <<>>, get_url(light_id), [on |-> TRUE])

\* Bridge.turn_off_light up to its first suspension, bridge.py:66-72
turn_off_light(light_id) ==
    IF ~validate_light_id(light_id)
    THEN Task("turn_off_light", light_id, <<>>, "failed", FALSE, 2, 0)
    ELSE PutStart("turn_off_light", light_id, <<>>, get_url(light_id), [on |-> FALSE])

\* Http.get up to its first suspension, http_handler.py:18-22, called from a
\* bridge coroutine whose except clause logs and re-raises
GetStart(op, url) ==
    IF ~validate_url(url)
    THEN Task(op, <<>>, <<>>, "failed", FALSE, 1, 1)
    ELSE Task(op, <<>>, <<>>, "pending", FALSE, 0, 0)

\* Bridge.get_available_lights up to its first suspension, bridge.py:103-108
get_available_lights ==
    GetStart("get_available_lights", [scheme |-> "http://", path |-> <<"lights">>])

\* Bridge.set_light_color up to its first suspension, bridge.py:84-95
set_light_color(light_id, state) ==
    IF ~validate_color_values(state.hue, state.bri, state.sat)
    THEN \* raised outside the try: logged once, by validate_color_values
         Task("set_light_color", light_id, state, "failed", FALSE, 1, 0)
    ELSE IF ~validate_light_id(light_id)
    THEN Task("set_light_color", light_id, state, "failed", FALSE, 2, 0)
    ELSE PutStart("set_light_color", light_id, state, get_url(light_id),
                  [hue |-> state.hue, bri |-> state.bri, sat |-> state.sat])

\* a bridge coroutine whose except clause re-raises without logging
MutSettledSilent(t, o) ==
    IF o = "ok" THEN [t EXCEPT !.st = "ok"]
    ELSE [t EXCEPT !.st = "failed",
                   !.http_log = @ + (IF HttpLogged(o) THEN 1 ELSE 0)]

\* a pending request ends with outcome o: http_handler.py:47-54, then the
\* bridge coroutine's return or except clause, bridge.py:54-57 / 92-95
Settled(t, o) ==
    IF o = "ok" THEN [t EXCEPT !.st = "ok"]
    ELSE [t EXCEPT !.st = "failed",
                   !.http_log = @ + (IF HttpLogged(o) THEN 1 ELSE 0),
                   !.bridge_log = @ + 1]

\* a run that ends without cancelling its pending tasks
MutCancelledNot(t) == t

\* a pending task is cancelled: CancelledError is no Exception, so no except
\* clause of http_handler.py or bridge.py runs
Cancelled(t) == IF t.st = "pending" THEN [t EXCEPT !.st = "cancelled"] ELSE t

(***************************************************************************)
(* State.                                                                  *)
(***************************************************************************)
VARIABLES
    env,              \* LIGHTS, MIN_DURATION, MAX_DURATION
    animation_json,   \* the content of animation.json
    pc,               \* where the process is
    validation,       \* the Bridge constructor's validation call
    lights, minimum_duration, maximum_duration, animations,  \* Animation's fields
    tasks,            \* the tasks of the current asyncio.gather, one per light
    config,           \* index in animations of the run's preset, 0 before the choice
    duration,         \* the run's tick count
    tick,             \* iterations of the tick loop begun in this run
    ticks_done,       \* ticks of this run whose sleep has ended
    sleep_ms,         \* the last sleep of this run, in milliseconds
    outcome,          \* how the last asyncio.run(load_effect()) ended
    error_log         \* entries launch appended to error_log.txt for the last run

input_vars == <<env, animation_json>>
anim_vars == <<lights, minimum_duration, maximum_duration, animations>>
run_vars == <<tasks, config, duration, tick, ticks_done, sleep_ms, outcome, error_log>>
vars == <<input_vars, pc, validation, anim_vars, run_vars>>

NoValidation == [st |-> "none", gets |-> 0, bridge_log |-> 0, http_log |-> 0]

Init ==
    /\ env \in [LIGHTS : LightsStrings,
                MIN_DURATION : 0..MaxDuration,
                MAX_DURATION : 0..MaxDuration]
    /\ animation_json \in AnimationFiles
    /\ pc = "Bridge"
    /\ validation = NoValidation
    /\ lights = <<>>
    /\ minimum_duration = 0
    /\ maximum_duration = 0
    /\ animations = <<>>
    /\ tasks = <<>>
    /\ config = 0
    /\ duration = 0
    /\ tick = 0
    /\ ticks_done = 0
    /\ sleep_ms = 0
    /\ outcome = "none"
    /\ error_log = 0

(***************************************************************************)
(* app.py:5, Bridge(): bridge.py:13-17 and validate_bridge_connection,     *)
(* bridge.py:24-32.  A response body is a JSON object with its key set or  *)
(* a JSON array with its items (the bridge answers an unknown token with   *)
(* an array holding one error object).                                     *)
(***************************************************************************)
ResponseBodies ==
    {[kind |-> "object", has |-> {"name", "swversion"}],
     [kind |-> "object", has |-> {"swversion"}],
     [kind |-> "array", has |-> {"error_object"}]}

\* 'name' in response, bridge.py:27
HasName(response) == "name" \in response.has

\* the validation call after the GET ended with outcome o and body `response`
Validated(o, response) ==
    IF ~validate_url(config_url)
    THEN [st |-> "failed", gets |-> 0, bridge_log |-> 1, http_log |-> 1]
    ELSE IF o # "ok"
    THEN [st |-> "failed", gets |-> 1, bridge_log |-> 1,
          http_log |-> IF HttpLogged(o) THEN 1 ELSE 0]
    ELSE IF ~HasName(response)
    THEN \* logged at line 28, raised at 29, caught and logged again at 30-31
         [st |-> "failed", gets |-> 1, bridge_log |-> 2, http_log |-> 0]
    ELSE [st |-> "ok", gets |-> 1, bridge_log |-> 0, http_log |-> 0]

\* a constructor that swallows the validation's exception
MutAfterBridge(v) == "Animation"

\* where app.py goes after Bridge(): on to Animation(...), or out with the
\* exception validate_bridge_connection raised
AfterBridge(v) == IF v.st = "ok" THEN "Animation" ELSE "exit"

BridgeInit ==
    /\ pc = "Bridge"
    /\ \E o \in TransportOutcomes, response \in ResponseBodies :
          /\ validation' = Validated(o, response)
          /\ pc' = AfterBridge(validation')
    /\ UNCHANGED <<input_vars, anim_vars, run_vars>>

(***************************************************************************)
(* app.py:8, Animation(bridge, "animation.json"): animation.py:16-22.      *)
(***************************************************************************)
\* where app.py goes after Animation(...): on to launch(), or out with the
\* exception load_and_validate_animations raised
AfterLoad(r) == IF r.ok THEN "launch" ELSE "exit"

AnimationInit ==
    /\ pc = "Animation"
    /\ lights' = Split(env.LIGHTS)
    /\ minimum_duration' = env.MIN_DURATION
    /\ maximum_duration' = env.MAX_DURATION
    /\ LET r == load_and_validate_animations(animation_json)
       IN /\ animations' = IF r.ok THEN r.data ELSE <<>>
          /\ pc' = AfterLoad(r)
    /\ UNCHANGED <<input_vars, validation, run_vars>>

(***************************************************************************)
(* Animation.launch and Animation.load_effect, animation.py:55-102.        *)
(***************************************************************************)
\* gather(return_exceptions=True): it returns once every task is done
MutGatherReturnsSettled(ts) == \A i \in DOMAIN ts : ts[i].st \in {"ok", "failed"}
\* asyncio.wait(FIRST_COMPLETED): it returns once one task has returned
MutGatherReturnsAny(ts) == \E i \in DOMAIN ts : ts[i].st = "ok"

\* asyncio.gather(*tasks), animation.py:61 and 78: it returns once every
\* task has returned, and raises as soon as one task has raised
GatherReturns(ts) == \A i \in DOMAIN ts : ts[i].st = "ok"
GatherRaises(ts) == \E i \in DOMAIN ts : ts[i].st = "failed"

\* animation.py:99 and 60-61: a new run; every turn_on_light task runs up
\* to its first suspension
StartRun ==
    /\ pc = "launch"
    /\ tasks' = [i \in 1..Len(lights) |-> turn_on_light(lights[i])]
    /\ config' = 0
    /\ duration' = 0
    /\ tick' = 0
    /\ ticks_done' = 0
    /\ sleep_ms' = 0
    /\ outcome' = "none"
    /\ error_log' = 0
    /\ pc' = "turn_on"
    /\ UNCHANGED <<input_vars, validation, anim_vars>>

\* the network ends the request of task i
Settle(i, o) ==
    /\ pc \in {"turn_on", "tick", "api"}
    /\ i \in DOMAIN tasks
    /\ tasks[i].st = "pending"
    /\ tasks' = [tasks EXCEPT ![i] = Settled(@, o)]
    /\ UNCHANGED <<input_vars, pc, validation, anim_vars, config, duration, tick,
                   ticks_done, sleep_ms, outcome, error_log>>

\* animation.py:61 returns
TurnOnReturn ==
    /\ pc = "turn_on"
    /\ GatherReturns(tasks)
    /\ pc' = "select"
    /\ UNCHANGED <<input_vars, validation, anim_vars, run_vars>>

\* the exception of a gather leaves load_effect; asyncio.run cancels the
\* tasks still pending and waits for them before it re-raises
Raise(what) ==
    /\ tasks' = [i \in DOMAIN tasks |-> Cancelled(tasks[i])]
    /\ outcome' = what
    /\ pc' = "except"
    /\ UNCHANGED <<input_vars, validation, anim_vars, config, duration, tick,
                   ticks_done, sleep_ms, error_log>>

\* animation.py:61 raises
TurnOnRaise ==
    /\ pc = "turn_on"
    /\ GatherRaises(tasks)
    /\ Raise("turn_on_light")

\* animation.py:63-65
SelectAnimation ==
    /\ pc = "select"
    /\ \/ /\ Len(animations) = 0            \* random.choice: IndexError
          /\ outcome' = "IndexError"
          /\ pc' = "except"
          /\ UNCHANGED <<config, duration>>
       \/ /\ Len(animations) > 0
          /\ randint(minimum_duration, maximum_duration) = {}   \* ValueError
          /\ config' \in 1..Len(animations)
          /\ outcome' = "ValueError"
          /\ pc' = "except"
          /\ UNCHANGED duration
       \/ /\ config' \in 1..Len(animations)
          /\ duration' \in randint(minimum_duration, maximum_duration)
          /\ pc' = "loop"
          /\ UNCHANGED outcome
    /\ UNCHANGED <<input_vars, validation, anim_vars, tasks, tick, ticks_done,
                   sleep_ms, error_log>>

\* animation.py:67-78: one more iteration; a state is drawn per light and
\* every set_light_color task runs up to its first suspension
TickFanout ==
    /\ pc = "loop"
    /\ tick < duration
    /\ \E states \in [1..Len(lights) ->
                        generate_random_state(animations[config].properties)] :
          tasks' = [i \in 1..Len(lights) |-> set_light_color(lights[i], states[i])]
    /\ tick' = tick + 1
    /\ pc' = "tick"
    /\ UNCHANGED <<input_vars, validation, anim_vars, config, duration,
                   ticks_done, sleep_ms, outcome, error_log>>

\* a sleep that uses the upper bound of the speed range
MutSleepMs(properties) == properties["speed"]["max"].val

\* animation.py:79: the sleep in milliseconds, config['speed']['min']
SleepMs(properties) == properties["speed"]["min"].val

\* animation.py:78 returns and the sleep of line 79 begins
TickReturn ==
    /\ pc = "tick"
    /\ GatherReturns(tasks)
    /\ sleep_ms' = SleepMs(animations[config].properties)
    /\ pc' = "sleep"
    /\ UNCHANGED <<input_vars, validation, anim_vars, tasks, config, duration,
                   tick, ticks_done, outcome, error_log>>

\* animation.py:78 raises
TickRaise ==
    /\ pc = "tick"
    /\ GatherRaises(tasks)
    /\ Raise("set_light_color")

\* the sleep of animation.py:79 ends
SleepEnd ==
    /\ pc = "sleep"
    /\ ticks_done' = ticks_done + 1
    /\ pc' = "loop"
    /\ UNCHANGED <<input_vars, validation, anim_vars, tasks, config, duration,
                   tick, sleep_ms, outcome, error_log>>

\* animation.py:67: range(duration) is exhausted, load_effect returns
RunReturn ==
    /\ pc = "loop"
    /\ tick >= duration
    /\ outcome' = "returned"
    /\ pc' = "launch"
    /\ UNCHANGED <<input_vars, validation, anim_vars, tasks, config, duration,
                   tick, ticks_done, sleep_ms, error_log>>

\* a launch without the while loop around its try
MutAfterExcept == "exit"

\* where launch goes after its except clause, animation.py:100-102 and 97
AfterExcept == "launch"

\* animation.py:100-102
LaunchExcept ==
    /\ pc = "except"
    /\ error_log' = error_log + 1
    /\ pc' = AfterExcept
    /\ UNCHANGED <<input_vars, validation, anim_vars, tasks, config, duration,
                   tick, ticks_done, sleep_ms, outcome>>

Next ==
    \/ BridgeInit
    \/ AnimationInit
    \/ StartRun
    \/ \E i \in DOMAIN tasks, o \in TransportOutcomes : Settle(i, o)
    \/ TurnOnReturn
    \/ TurnOnRaise
    \/ SelectAnimation
    \/ TickFanout
    \/ TickReturn
    \/ TickRaise
    \/ SleepEnd
    \/ RunReturn
    \/ LaunchExcept

Spec == Init /\ [][Next]_vars

(***************************************************************************)
(* The four public operations of a validated Bridge, bridge.py:44-108,     *)
(* called one after the other by a caller that awaits each call, with      *)
(* light ids and colour values of the caller's choosing.                   *)
(***************************************************************************)
ApiLightIds == {<<>>, <<"1">>}
ApiStates ==
    [hue : {0 - 1, 0, MaxHue, MaxHue + 1},
     bri : {0 - 1, 0, MaxBri, MaxBri + 1},
     sat : {0 - 1, 0, MaxSat, MaxSat + 1}]

ApiInit ==
    /\ env = [LIGHTS |-> <<>>, MIN_DURATION |-> 0, MAX_DURATION |-> 0]
    /\ animation_json = <<>>
    /\ pc = "api"
    /\ validation = [st |-> "ok", gets |-> 1, bridge_log |-> 0, http_log |-> 0]
    /\ lights = <<>>
    /\ minimum_duration = 0
    /\ maximum_duration = 0
    /\ animations = <<>>
    /\ tasks = <<>>
    /\ config = 0
    /\ duration = 0
    /\ tick = 0
    /\ ticks_done = 0
    /\ sleep_ms = 0
    /\ outcome = "none"
    /\ error_log = 0

\* the caller awaits one of the four operations
ApiCall ==
    /\ pc = "api"
    /\ \A i \in DOMAIN tasks : tasks[i].st # "pending"
    /\ \E light_id \in ApiLightIds, state \in ApiStates :
          tasks' \in {<<turn_on_light(light_id)>>, <<turn_off_light(light_id)>>,
                      <<set_light_color(light_id, state)>>, <<get_available_lights>>}
    /\ UNCHANGED <<input_vars, pc, validation, anim_vars, config, duration, tick,
                   ticks_done, sleep_ms, outcome, error_log>>

ApiNext ==
    \/ ApiCall
    \/ \E i \in DOMAIN tasks, o \in TransportOutcomes : Settle(i, o)

ApiSpec == ApiInit /\ [][ApiNext]_vars

\* every enabled step of the process and every pending request eventually
\* happens: the event loop runs, and every network call eventually settles
FairSpec == Spec /\ WF_vars(Next)

(***************************************************************************)
(* Properties.                                                             *)
(***************************************************************************)
\* the positions inside launch()
LaunchPcs == {"launch", "turn_on", "select", "loop", "tick", "sleep", "except"}

\* hue in [0,65535], bri and sat in [0,254]
InColorRange(state) ==
    /\ state.hue \in 0..65535
    /\ state.bri \in 0..254
    /\ state.sat \in 0..254

IsPush(t) == t.op = "set_light_color"
IsTurnOn(t) == t.op = "turn_on_light"

\* C1: when a set_light_color task of a tick fails, no other push of that
\* tick is kept from completing and the run is not aborted by the failure.
C1_PushFailureIsolated ==
    /\ outcome # "set_light_color"
    /\ \A i \in DOMAIN tasks : IsPush(tasks[i]) => tasks[i].st # "cancelled"

\* C2: once a turn_on_light task of a run has failed, the run executes no
\* tick; the failure is in the bridge log; the run ends in launch's except
\* clause, which can run and appends one entry to error_log.txt; launch is
\* then back at the head of its loop, where a new run can start; the process
\* has not exited.
C2_TurnOnFailureAbortsRun ==
    (\E i \in DOMAIN tasks : IsTurnOn(tasks[i]) /\ tasks[i].st = "failed") =>
        /\ pc \in {"turn_on", "except", "launch"}
        /\ tick = 0 /\ ticks_done = 0
        /\ \A i \in DOMAIN tasks : IsTurnOn(tasks[i])
        /\ \E i \in DOMAIN tasks : tasks[i].st = "failed" /\ tasks[i].bridge_log >= 1
        /\ pc = "turn_on" => ENABLED TurnOnRaise /\ ~ENABLED TurnOnReturn
        /\ pc = "except" => outcome = "turn_on_light" /\ ENABLED LaunchExcept
        /\ pc = "launch" =>
              outcome = "turn_on_light" /\ error_log = 1 /\ ENABLED StartRun

C2_Witness ==
    /\ pc = "launch"
    /\ outcome = "turn_on_light"
    /\ error_log = 1
    /\ \E i \in DOMAIN tasks : tasks[i].st = "failed" /\ tasks[i].put

\* C3: a run with minimum_duration = maximum_duration = k that has turned
\* its lights on and chosen its preset has executed exactly k ticks when it
\* ends.
C3_ExactlyKTicks ==
    (/\ minimum_duration = maximum_duration
     /\ pc \in {"except", "launch"}
     /\ outcome \in {"returned", "set_light_color"})
        => ticks_done = minimum_duration

AllSettled == \A i \in DOMAIN tasks : tasks[i].st \in {"ok", "failed"}

\* C4: while a run sleeps after a tick every push of that tick has settled,
\* one per light, and a tick begins only when every task of the gather
\* before it has settled.
C4_JoinBarrier ==
    /\ [](pc = "sleep" =>
            /\ AllSettled
            /\ DOMAIN tasks = 1..Len(lights)
            /\ \A i \in DOMAIN tasks : IsPush(tasks[i]))
    /\ [][tick' > tick => AllSettled]_vars

C4_Witness ==
    /\ pc = "sleep"
    /\ tick = 2
    /\ Len(tasks) >= 2
    /\ \A i \in DOMAIN tasks : IsPush(tasks[i]) /\ tasks[i].put /\ tasks[i].st = "ok"

\* C5: from every position inside launch, whether the run ends by
\* returning or by an exception, launch comes back to the head of its loop,
\* and from the head of its loop a new run starts: under FairSpec a new run
\* starts infinitely often and the process never exits.
C5_LaunchNeverStops ==
    /\ [](pc \in LaunchPcs => <>(pc = "launch"))
    /\ [](pc = "launch" => <>(pc = "turn_on"))

C5_Witness ==
    /\ pc = "launch"
    /\ outcome \in {"IndexError", "ValueError", "turn_on_light", "set_light_color"}
    /\ error_log = 1

\* C6: a set_light_color task called with a hue outside [0,65535] or a
\* brightness or saturation outside [0,254] has failed, has appended to
\* the bridge log and has issued no PUT.
C6_OutOfRangeFailsFast ==
    \A i \in DOMAIN tasks :
        (IsPush(tasks[i]) /\ ~InColorRange(tasks[i].args)) =>
            /\ tasks[i].st = "failed"
            /\ tasks[i].bridge_log >= 1
            /\ ~tasks[i].put
            /\ tasks[i].http_log = 0

C6_Witness ==
    \E i, j \in DOMAIN tasks :
        /\ IsPush(tasks[i]) /\ tasks[i].args.hue < 0 /\ tasks[i].st = "failed"
        /\ IsPush(tasks[j]) /\ InColorRange(tasks[j].args) /\ tasks[j].put

\* C7: every LightState passed to set_light_color has hue in [0,65535],
\* bri in [0,254] and sat in [0,254].
C7_StatesInRange ==
    \A i \in DOMAIN tasks : IsPush(tasks[i]) => InColorRange(tasks[i].args)

\* a range object that lacks min or max, has a bound that is no integer, or
\* has min > max
MalformedRange(r) ==
    \/ ~({"min", "max"} \subseteq DOMAIN r)
    \/ r["min"].type # "int"
    \/ r["max"].type # "int"
    \/ r["min"].val > r["max"].val

\* a preset file in which some preset lacks a range or has a malformed one
MalformedFile(data) ==
    \E m \in DOMAIN data : \E k \in {"speed", "hue", "bri", "sat"} :
        \/ k \notin DOMAIN data[m].properties
        \/ MalformedRange(data[m].properties[k])

\* C8: with a malformed preset file the Animation constructor fails, holds
\* no preset, and launch is never entered.
C8_MalformedFileFails ==
    (MalformedFile(animation_json) /\ pc \notin {"Bridge", "Animation"}) =>
        pc = "exit" /\ animations = <<>>

\* C9: inside launch the animation set is non-empty and is the one loaded.
C9_NonEmptyImmutable ==
    pc \in LaunchPcs => Len(animations) > 0 /\ animations = animation_json

\* C10: the Bridge constructor issues exactly one GET to .../config, no
\* later step issues another, and when the validation fails the process
\* exits without ever creating a task for a light operation.
C10_OneValidation ==
    /\ pc = "Bridge" => validation.gets = 0
    /\ pc # "Bridge" => validation.gets = 1 /\ validation.st # "none"
    /\ validation.st = "failed" => pc = "exit" /\ tasks = <<>> /\ lights = <<>>
    /\ pc \in LaunchPcs => validation.st = "ok"

C10_Witness ==
    /\ pc = "exit"
    /\ validation.st = "failed"
    /\ validation.gets = 1
    /\ validation.bridge_log = 2

\* v lies in the range object r, bounds included
Within(v, r) == r["min"].val <= v /\ v <= r["max"].val

\* C11: the state every set_light_color task was called with has its hue,
\* bri and sat inside the [min,max] of the run's preset, bounds included.
C11_StateWithinPreset ==
    \A i \in DOMAIN tasks :
        IsPush(tasks[i]) =>
            /\ config \in 1..Len(animations)
            /\ Within(tasks[i].args.hue, animations[config].properties["hue"])
            /\ Within(tasks[i].args.bri, animations[config].properties["bri"])
            /\ Within(tasks[i].args.sat, animations[config].properties["sat"])

C11_Witness ==
    \E i, j \in DOMAIN tasks :
        /\ IsPush(tasks[i]) /\ IsPush(tasks[j])
        /\ animations[config].properties["hue"]["min"].val
              < animations[config].properties["hue"]["max"].val
        /\ tasks[i].args.hue = animations[config].properties["hue"]["min"].val
        /\ tasks[j].args.hue = animations[config].properties["hue"]["max"].val

\* C12: a task of turn_on_light, turn_off_light, set_light_color or
\* get_available_lights that has failed has appended to the bridge log; a
\* call with an empty light id, and a call whose request made the transport
\* log an error, has failed; and a pending call ends either returned, with
\* nothing logged, or failed, with one more entry in the bridge log.
C12_FailuresLoggedAndRaised ==
    /\ [](\A i \in DOMAIN tasks :
            /\ tasks[i].st = "failed" => tasks[i].bridge_log >= 1
            /\ tasks[i].http_log >= 1 => tasks[i].st = "failed"
            /\ (tasks[i].op # "get_available_lights" /\ tasks[i].light_id = <<>>)
                  => tasks[i].st = "failed")
    /\ [][\A i \in DOMAIN tasks :
            (tasks[i].st = "pending" /\ i \in DOMAIN tasks' /\ tasks'[i] # tasks[i]) =>
                \/ /\ tasks'[i].st = "ok"
                   /\ tasks'[i].bridge_log = tasks[i].bridge_log
                   /\ tasks'[i].http_log = tasks[i].http_log
                \/ /\ tasks'[i].st = "failed"
                   /\ tasks'[i].bridge_log = tasks[i].bridge_log + 1]_vars

C12_Witness ==
    /\ pc = "api"
    /\ \E i \in DOMAIN tasks :
          /\ tasks[i].op \in {"turn_off_light", "get_available_lights"}
          /\ tasks[i].st = "failed"
          /\ tasks[i].bridge_log = 1
          /\ tasks[i].http_log = 0

\* C13: no turn_on_light task is cancelled: when the turn-on step of a run
\* has ended, every light's turn_on_light has returned or failed by itself.
C13_TurnOnsRunToCompletion ==
    \A i \in DOMAIN tasks :
        IsTurnOn(tasks[i]) =>
            /\ tasks[i].st # "cancelled"
            /\ pc \notin {"turn_on", "api"} => tasks[i].st \in {"ok", "failed"}

\* the presets that differ from p at most in speed.max and that the loader
\* accepts
SpeedMaxVariants(p) ==
    {q \in {WithRange(p, "speed", Range(p["speed"]["min"], JInt(m))) :
              m \in (p["speed"]["min"].val)..(p["speed"]["min"].val + MaxWidth + 1)} :
        load_and_validate_animations(<<Member("a", q)>>).ok}

\* C14: a run sleeps exactly speed.min milliseconds after a tick, and what
\* a run reads of its preset, the sleep and the states it can draw, is the
\* same for every preset that differs from it only in speed.max.
C14_SpeedMaxUnused ==
    config \in 1..Len(animations) =>
        LET p == animations[config].properties
        IN /\ pc = "sleep" => sleep_ms = p["speed"]["min"].val
           /\ sleep_ms \in {0, p["speed"]["min"].val}
           /\ Cardinality(SpeedMaxVariants(p)) >= 2
           /\ \A q \in SpeedMaxVariants(p) :
                 /\ SleepMs(q) = SleepMs(p)
                 /\ generate_random_state(q) = generate_random_state(p)

C14_Witness ==
    /\ pc = "sleep"
    /\ config \in 1..Len(animations)
    /\ animations[config].properties["speed"]["min"].val
          < animations[config].properties["speed"]["max"].val
    /\ sleep_ms = animations[config].properties["speed"]["min"].val
    /\ sleep_ms > 0

\* a task whose Http.get or Http.put call has failed
TransportFailed(t) ==
    t.st = "failed" /\ (t.put \/ t.op = "get_available_lights")

\* C15: every task whose Http.put or Http.get call failed has appended to
\* the transport log, and so has a validation GET that failed in Http.get.
C15_TransportFailuresLogged ==
    /\ \A i \in DOMAIN tasks : TransportFailed(tasks[i]) => tasks[i].http_log >= 1
    /\ (validation.st = "failed" /\ validation.bridge_log = 1)
          => validation.http_log >= 1

\* every configured light has a turn_on_light task that has returned
AllTurnedOn ==
    /\ DOMAIN tasks = 1..Len(lights)
    /\ \A i \in DOMAIN tasks : IsTurnOn(tasks[i]) /\ tasks[i].st = "ok"

\* C16: the first set_light_color tasks of a run are created in a state
\* where every light's turn_on_light task of that run has returned; while
\* the turn-on step runs, and in a run with a failed turn_on_light, there is
\* no set_light_color task.
C16_PushOnlyAfterTurnOn ==
    /\ [][(\E i \in DOMAIN tasks' : IsPush(tasks'[i]))
            => (AllTurnedOn \/ \A i \in DOMAIN tasks : IsPush(tasks[i]))]_vars
    /\ [][(tick = 0 /\ tick' = 1) => (AllTurnedOn /\ pc = "loop")]_vars
    /\ []((pc \in {"turn_on", "select"} \/ tick = 0 \/ outcome = "turn_on_light")
            => \A i \in DOMAIN tasks : ~IsPush(tasks[i]))

C16_Witness ==
    /\ pc = "tick"
    /\ tick = 1
    /\ Len(tasks) >= 2
    /\ \A i \in DOMAIN tasks : IsPush(tasks[i]) /\ tasks[i].put

NonePending == \A i \in DOMAIN tasks : tasks[i].st # "pending"

\* C17: whenever launch is between two runs (in its except clause or at
\* the head of its loop) no task is pending, so a run starts with no call of
\* an earlier run in flight; and when a gather raises, every task it leaves
\* pending ends cancelled in the same step, before the except clause runs.
C17_RunsNeverOverlap ==
    /\ [](pc \in {"launch", "except"} => NonePending)
    /\ [][(pc = "launch" /\ pc' = "turn_on") => NonePending]_vars
    /\ [][(pc \in {"turn_on", "tick"} /\ pc' = "except") =>
            \A i \in DOMAIN tasks :
                tasks[i].st = "pending" =>
                    /\ tasks'[i].st = "cancelled"
                    /\ tasks'[i].bridge_log = tasks[i].bridge_log]_vars

C17_Witness ==
    /\ pc = "launch"
    /\ outcome \in {"turn_on_light", "set_light_color"}
    /\ \E i, j \in DOMAIN tasks :
          /\ tasks[i].st = "failed"
          /\ tasks[j].st = "cancelled" /\ tasks[j].put

Inverted == pc \in LaunchPcs /\ minimum_duration > maximum_duration

\* C18 as claimed: with minimum_duration > maximum_duration every run that
\* has ended has issued a turn-on request for every light and has failed
\* when drawing the tick count.
C18_EveryRunFailsAtTickCount ==
    (Inverted /\ pc \in {"except", "launch"} /\ outcome # "none") =>
        /\ outcome = "ValueError"
        /\ \A i \in DOMAIN tasks : IsTurnOn(tasks[i]) /\ tasks[i].put

\* C18, amended: with minimum_duration > maximum_duration no run begins a
\* tick and no set_light_color task exists; every run calls turn_on_light
\* for every configured light and ends with an exception (a failed turn-on,
\* IndexError from the choice in an empty set, or ValueError from the tick
\* count), which launch logs; and launch comes back to the head of its loop
\* and starts the next run, forever.
C18_InvertedDurationsNeverTick ==
    /\ [](Inverted =>
            /\ tick = 0 /\ ticks_done = 0
            /\ pc \notin {"loop", "tick", "sleep"}
            /\ \A i \in DOMAIN tasks : ~IsPush(tasks[i])
            /\ outcome \in {"none", "turn_on_light", "IndexError", "ValueError"}
            /\ pc \in {"turn_on", "select", "except"} =>
                  /\ DOMAIN tasks = 1..Len(lights)
                  /\ \A i \in DOMAIN tasks : IsTurnOn(tasks[i])
            /\ pc = "except" => outcome # "none"
            /\ (pc = "launch" /\ outcome # "none") => error_log = 1)
    /\ [](Inverted => <>(pc = "launch"))
    /\ []((Inverted /\ pc = "launch") => <>(pc = "turn_on"))

C18_Witness ==
    /\ pc = "launch"
    /\ minimum_duration > maximum_duration
    /\ outcome = "ValueError"
    /\ error_log = 1
    /\ Len(tasks) >= 2
    /\ \A i \in DOMAIN tasks : IsTurnOn(tasks[i]) /\ tasks[i].st = "ok"

====
